---- MODULE Spec2Model ----
(***************************************************************************)
(* Model of main.py: the two-node retrieve -> generate_answer workflow    *)
(* behind POST /query, and the in-process mirror global_state_store kept  *)
(* by /ingest, /batch_ingest and DELETE /documents/{doc_id}.              *)
(*                                                                         *)
(* Python values are modelled as follows.  A str is a TLA+ string; a list *)
(* is a sequence; a dict with fixed keys is a record; an Optional value   *)
(* is a sequence of length at most one (<<>> is None).  The vector store  *)
(* and the exceptions it raises are the environment: what search answers  *)
(* for a query is chosen freely from SearchOutcomes, and every upsert and *)
(* delete either takes effect and returns or raises without effect.       *)
(* Embedding vectors, timestamps and processing_time are not modelled:    *)
(* no state of the program depends on them.                                *)
(***************************************************************************)
EXTENDS Naturals, Sequences, FiniteSets, TLC

(***************************************************************************)
(* Bounds and program constants                                            *)
(***************************************************************************)
\* Most hits one search answers with (the code asks for limit = SearchLimit).
MaxHits == 2

\* limit=5 of the search call.
SearchLimit == 5

\* top_doc[:200]
TruncLen == 200

\* How far the longest document content exceeds TruncLen.
MaxOver == 7

\* Number of /ingest, /batch_ingest documents a behaviour may submit.
MaxDocs == 3

\* Most documents in one /batch_ingest request.
MaxBatch == 2

(***************************************************************************)
(* Strings                                                                 *)
(***************************************************************************)
RECURSIVE Rep(_, _)
\* s repeated n times.
Rep(s, n) == IF n = 0 THEN "" ELSE s \o Rep(s, n - 1)

Min(a, b) == IF a <= b THEN a ELSE b

\* Python's s[:n] for n >= 0.
Slice(s, n) == SubSeq(s, 1, Min(n, Len(s)))

\* Python's  sub in s.
Contains(s, sub) ==
    \E i \in 1..(Len(s) + 1) :
        /\ i + Len(sub) - 1 <= Len(s)
        /\ SubSeq(s, i, i + Len(sub) - 1) = sub

\* A text of n characters in which neighbouring positions differ.
Text(n) == Slice(Rep("0123456789", (n \div 10) + 1), n)

(***************************************************************************)
(* Optional values: None is <<>>, a value v is <<v>>.                      *)
(***************************************************************************)
None == <<>>
Some(v) == <<v>>

\* Python truthiness of an Optional[str]: None and "" are both falsy.
Truthy(e) == e # None /\ e[1] # ""

(***************************************************************************)
(* The environment: queries, stored points, what search answers            *)
(***************************************************************************)
\* The queries of the /query requests, one request per query.
Queries == {"what is qdrant", "how to ingest"}

\* str(e) of the exceptions the store client raises.
ExcMessages == {"", "connection refused"}

\* Points of the collection a search may return: payloads with and without
\* the "content" and "metadata" keys, contents shorter than, as long as and
\* longer than TruncLen.  A metadata dict is modelled by its set of keys.
Points ==
    { [id |-> "p1", payload |-> [content |-> "", metadata |-> {}]],
      [id |-> "p2", payload |-> [content |-> "short text", metadata |-> {"source"}]],
      [id |-> "p3", payload |-> [content |-> Text(TruncLen)]],
      [id |-> "p4", payload |-> [content |-> "x" \o Text(TruncLen + MaxOver),
                                 metadata |-> {"source"}]],
      [id |-> "p5", payload |-> [metadata |-> {}]] }

\* Ranked hit lists: distinct points, at most MaxHits (and at most
\* SearchLimit) of them, scores falling with the rank.
HitLists ==
    LET Lens == 0..Min(MaxHits, SearchLimit)
        Seqs == UNION { [1..n -> Points] : n \in Lens }
        Inj(s) == \A i, j \in 1..Len(s) : i # j => s[i] # s[j]
    IN  { [i \in 1..Len(s) |-> [id |-> s[i].id, payload |-> s[i].payload,
                                 score |-> 100 - i]] : s \in {t \in Seqs : Inj(t)} }

\* What the try body of the retrieve node meets: generate_embedding or
\* global_qdrant_client.search raises (both end in the same handler), or
\* the search returns a hit list.
SearchOutcomes ==
    { [raises |-> TRUE, msg |-> m, hits |-> <<>>] : m \in ExcMessages }
    \cup { [raises |-> FALSE, msg |-> "", hits |-> h] : h \in HitLists }

(***************************************************************************)
(* Pipeline state and node functions                                       *)
(***************************************************************************)
\* dict.get(key, default) on a payload.
PayloadGet(payload, key, default) ==
    IF key \in DOMAIN payload THEN payload[key] ELSE default

create_initial_state(query) ==
    [ query            |-> query,
      retrieved_docs   |-> <<>>,
      final_answer     |-> "",
      processing_steps |-> <<>>,
      error            |-> None ]

RetrieveEntry == "Retrieved documents from Qdrant"
GenerateEntry == "Generated final answer"

\* The node's result when the search succeeded.
RetrieveSuccess(state, outcome) ==
    LET docs == [ i \in 1..Len(outcome.hits) |->
                    [ id       |-> outcome.hits[i].id,
                      content  |-> PayloadGet(outcome.hits[i].payload, "content", ""),
                      metadata |-> PayloadGet(outcome.hits[i].payload, "metadata", {}),
                      score    |-> outcome.hits[i].score ] ]
    IN  [ state  |-> [state EXCEPT !.retrieved_docs = docs,
                                   !.processing_steps = Append(@, RetrieveEntry)],
          raised |-> FALSE ]

\* Variant: no try/except around the search, the exception leaves the node.
retrieve_no_catch(state, outcome) ==
    IF outcome.raises
    THEN [state |-> state, raised |-> TRUE]
    ELSE RetrieveSuccess(state, outcome)

\* Variant: the handler stores str(e) alone, without the "Retrieval failed: "
\* prefix, so an exception with an empty message leaves a falsy error.
retrieve_raw_error(state, outcome) ==
    IF outcome.raises
    THEN [state |-> [state EXCEPT !.error = Some(outcome.msg)], raised |-> FALSE]
    ELSE RetrieveSuccess(state, outcome)

\* Variant: the provenance entry is appended before the search is called.
retrieve_append_first(state, outcome) ==
    IF outcome.raises
    THEN [ state  |-> [state EXCEPT
                         !.processing_steps = Append(@, RetrieveEntry),
                         !.error = Some("Retrieval failed: " \o outcome.msg)],
           raised |-> FALSE ]
    ELSE RetrieveSuccess(state, outcome)

\* The node returns the state it leaves behind and whether an exception
\* left the node.
retrieve_documents_node(state, outcome) ==
    IF outcome.raises
    THEN [ state  |-> [state EXCEPT !.error = Some("Retrieval failed: " \o outcome.msg)],
           raised |-> FALSE ]
    ELSE RetrieveSuccess(state, outcome)

\* The node's answer built from the top document, cut after n characters.
AnswerFromTop(state, n) ==
    LET top_doc == state.retrieved_docs[1].content
    IN  [ state  |-> [state EXCEPT
                        !.final_answer = "Based on the document: "
                                         \o Slice(top_doc, n) \o "...",
                        !.processing_steps = Append(@, GenerateEntry)],
          raised |-> FALSE ]

\* Variant: the provenance entry is appended on every path.
generate_append_always(state) ==
    IF Truthy(state.error)
    THEN [ state  |-> [state EXCEPT
                         !.final_answer = "Error occurred: " \o state.error[1],
                         !.processing_steps = Append(@, GenerateEntry)],
           raised |-> FALSE ]
    ELSE IF state.retrieved_docs = <<>>
    THEN [ state  |-> [state EXCEPT
                         !.final_answer = "No relevant documents found.",
                         !.processing_steps = Append(@, GenerateEntry)],
           raised |-> FALSE ]
    ELSE AnswerFromTop(state, TruncLen)

\* Variant: the error branch lacks its return and falls through.
generate_missing_return(state) ==
    IF state.retrieved_docs = <<>>
    THEN [ state  |-> [state EXCEPT !.final_answer = "No relevant documents found."],
           raised |-> FALSE ]
    ELSE AnswerFromTop(state, TruncLen)

\* Variant: no check for an empty list, docs[0] raises IndexError.
generate_no_empty_check(state) ==
    IF Truthy(state.error)
    THEN [ state  |-> [state EXCEPT !.final_answer = "Error occurred: " \o state.error[1]],
           raised |-> FALSE ]
    ELSE IF state.retrieved_docs = <<>>
    THEN [state |-> state, raised |-> TRUE]
    ELSE AnswerFromTop(state, TruncLen)

\* Variant: the slice is one character too long.
generate_slice_off_by_one(state) ==
    IF Truthy(state.error)
    THEN [ state  |-> [state EXCEPT !.final_answer = "Error occurred: " \o state.error[1]],
           raised |-> FALSE ]
    ELSE IF state.retrieved_docs = <<>>
    THEN [ state  |-> [state EXCEPT !.final_answer = "No relevant documents found."],
           raised |-> FALSE ]
    ELSE AnswerFromTop(state, TruncLen + 1)

generate_answer_node(state) ==
    IF Truthy(state.error)
    THEN [ state  |-> [state EXCEPT !.final_answer = "Error occurred: " \o state.error[1]],
           raised |-> FALSE ]
    ELSE IF state.retrieved_docs = <<>>
    THEN [ state  |-> [state EXCEPT !.final_answer = "No relevant documents found."],
           raised |-> FALSE ]
    ELSE AnswerFromTop(state, TruncLen)

\* build_workflow: entry point and edges of the compiled graph.
EntryPoint == "retrieve"
Edges == [retrieve |-> "generate_answer", generate_answer |-> "END"]

(***************************************************************************)
(* State                                                                   *)
(***************************************************************************)
VARIABLES
    global_workflow,   \* "None" until build_workflow, then "compiled"
    search_response,   \* what the store's search answers for each query
    heap,              \* the state dicts alive: reference -> dict
    state_ref,         \* per request: initial_state / final_state reference
    pc,                \* per request: where query_documents stands
    response           \* per request: what the endpoint answered

VARIABLES
    collection,          \* the Qdrant collection: point id -> payload
    global_state_store,  \* the in-process mirror: point id -> payload
    uuid_count,          \* how many uuid4 values this process has drawn
    store_response       \* what the last store endpoint answered

pipeVars == <<global_workflow, search_response, heap, state_ref, pc, response>>
storeVars == <<collection, global_state_store, uuid_count, store_response>>
vars == <<pipeVars, storeVars>>

\* Variant: create_initial_state hands out one module-level dict.
SharedStateRef(h) == 1

\* The reference of the dict a call of create_initial_state returns: a
\* dict literal is a new object on every call.
NewStateRef(h) == Cardinality(DOMAIN h) + 1

\* The module's globals after import, with no request served yet.
PipeInit ==
    /\ global_workflow = "None"
    /\ heap = <<>>
    /\ state_ref = [q \in Queries |-> 0]
    /\ pc = [q \in Queries |-> "idle"]
    /\ response = [q \in Queries |-> None]

startup_event ==
    /\ global_workflow = "None"
    /\ global_workflow' = "compiled"
    /\ UNCHANGED <<search_response, heap, state_ref, pc, response, storeVars>>

\* POST /query arrives: the workflow check, then create_initial_state and
\* the start of global_workflow.invoke.
query_documents(q) ==
    /\ pc[q] = "idle"
    /\ IF global_workflow = "None"
       THEN /\ response' = [response EXCEPT ![q] =
                   Some([status |-> 500, detail |-> "Workflow not initialized"])]
            /\ pc' = [pc EXCEPT ![q] = "done"]
            /\ UNCHANGED <<heap, state_ref>>
       ELSE LET ref == NewStateRef(heap)
            IN  /\ heap' = (ref :> create_initial_state(q)) @@ heap
                /\ state_ref' = [state_ref EXCEPT ![q] = ref]
                /\ pc' = [pc EXCEPT ![q] = EntryPoint]
                /\ UNCHANGED response
    /\ UNCHANGED <<global_workflow, search_response, storeVars>>

\* invoke runs node "retrieve".
Retrieve(q) ==
    /\ pc[q] = "retrieve"
    /\ LET state == heap[state_ref[q]]
           res   == retrieve_documents_node(state, search_response[state.query])
       IN  /\ heap' = [heap EXCEPT ![state_ref[q]] = res.state]
           /\ pc' = [pc EXCEPT ![q] = IF res.raised THEN "raised" ELSE Edges.retrieve]
    /\ UNCHANGED <<global_workflow, search_response, state_ref, response, storeVars>>

\* invoke runs node "generate_answer".
GenerateAnswer(q) ==
    /\ pc[q] = "generate_answer"
    /\ LET res == generate_answer_node(heap[state_ref[q]])
       IN  /\ heap' = [heap EXCEPT ![state_ref[q]] = res.state]
           /\ pc' = [pc EXCEPT ![q] = IF res.raised THEN "raised" ELSE Edges.generate_answer]
    /\ UNCHANGED <<global_workflow, search_response, state_ref, response, storeVars>>

\* invoke returned final_state, or raised: the endpoint answers.
QueryReturn(q) ==
    /\ pc[q] \in {"END", "raised"}
    /\ LET final_state == heap[state_ref[q]]
       IN  response' = [response EXCEPT ![q] =
               IF pc[q] = "raised"
               THEN Some([status |-> 500, detail |-> "Query processing failed"])
               ELSE Some([status         |-> 200,
                          initial_query  |-> q,
                          retrieved_docs |-> final_state.retrieved_docs,
                          final_answer   |-> final_state.final_answer])]
    /\ pc' = [pc EXCEPT ![q] = "done"]
    /\ UNCHANGED <<global_workflow, search_response, heap, state_ref, storeVars>>

(***************************************************************************)
(* The store endpoints and the mirror global_state_store                   *)
(***************************************************************************)
\* Ids: str(uuid.uuid4()) never repeats, so the n-th value drawn is
\* modelled by n; LegacyId is a point some other process stored before.
LegacyId == MaxDocs + 1
IssuedIds == 1..uuid_count
DocIds == (1..MaxDocs) \cup {LegacyId}

\* doc.content of the documents submitted.
DocContents == {"doc a", "doc b"}

\* The payload built for a document (ingested_at left out).
Payload(content) == [content |-> content, metadata |-> {}]

\* The collection when the process starts: empty, or holding a point this
\* process never stored.
StoreInit ==
    /\ collection \in {<<>>, LegacyId :> Payload("legacy")}
    /\ global_state_store = <<>>
    /\ uuid_count = 0
    /\ store_response = None

\* d without key k (dict.pop(k, None)).
Pop(d, k) == [x \in (DOMAIN d) \ {k} |-> d[x]]

\* Variant: the mirror is written before the upsert is attempted.
record_then_upsert(mirror, coll, point_id, payload, upsert_ok) ==
    IF upsert_ok
    THEN [ mirror |-> (point_id :> payload) @@ mirror,
           coll   |-> (point_id :> payload) @@ coll,
           raised |-> FALSE ]
    ELSE [ mirror |-> (point_id :> payload) @@ mirror, coll |-> coll, raised |-> TRUE ]

\* The try body shared by /ingest and /batch_ingest once point_id and
\* payload are built: upsert, then record in the mirror.  upsert_ok = FALSE
\* is the upsert raising, which skips the rest of the body.
upsert_and_record(mirror, coll, point_id, payload, upsert_ok) ==
    IF upsert_ok
    THEN [ mirror |-> (point_id :> payload) @@ mirror,
           coll   |-> (point_id :> payload) @@ coll,
           raised |-> FALSE ]
    ELSE [ mirror |-> mirror, coll |-> coll, raised |-> TRUE ]

\* The try body of DELETE /documents/{doc_id}: delete, then pop.
delete_and_pop(mirror, coll, doc_id, delete_ok) ==
    IF delete_ok
    THEN [ mirror |-> Pop(mirror, doc_id), coll |-> Pop(coll, doc_id), raised |-> FALSE ]
    ELSE [ mirror |-> mirror, coll |-> coll, raised |-> TRUE ]

\* POST /ingest
ingest_document(content, upsert_ok) ==
    /\ uuid_count < MaxDocs
    /\ LET point_id == uuid_count + 1
           res == upsert_and_record(global_state_store, collection, point_id,
                                    Payload(content), upsert_ok)
       IN  /\ uuid_count' = point_id
           /\ global_state_store' = res.mirror
           /\ collection' = res.coll
           /\ store_response' =
                 IF res.raised
                 THEN Some([status |-> 500, detail |-> "Ingestion failed"])
                 ELSE Some([status |-> 200, id |-> point_id])
    /\ UNCHANGED pipeVars

\* The loop of /batch_ingest over documents[i..]: acc carries the mirror,
\* the collection, the uuids drawn and the results so far.
RECURSIVE BatchLoop(_, _, _)
BatchLoop(documents, i, acc) ==
    IF i > Len(documents)
    THEN acc
    ELSE LET point_id == acc.count + 1
             res == upsert_and_record(acc.mirror, acc.coll, point_id,
                                      Payload(documents[i].content), documents[i].upsert_ok)
         IN  BatchLoop(documents, i + 1,
                 [ mirror  |-> res.mirror,
                   coll    |-> res.coll,
                   count   |-> point_id,
                   results |-> Append(acc.results,
                                  IF res.raised
                                  THEN [status |-> "error", id |-> point_id]
                                  ELSE [status |-> "success", id |-> point_id]) ])

\* POST /batch_ingest
batch_ingest(documents) ==
    /\ uuid_count + Len(documents) <= MaxDocs
    /\ LET out == BatchLoop(documents, 1,
                      [ mirror |-> global_state_store, coll |-> collection,
                        count |-> uuid_count, results |-> <<>> ])
       IN  /\ uuid_count' = out.count
           /\ global_state_store' = out.mirror
           /\ collection' = out.coll
           /\ store_response' = Some([status |-> 200, results |-> out.results])
    /\ UNCHANGED pipeVars

\* DELETE /documents/{doc_id}
delete_document(doc_id, delete_ok) ==
    /\ LET res == delete_and_pop(global_state_store, collection, doc_id, delete_ok)
       IN  /\ global_state_store' = res.mirror
           /\ collection' = res.coll
           /\ store_response' =
                 IF res.raised
                 THEN Some([status |-> 500, detail |-> "Deletion failed"])
                 ELSE Some([status |-> 200, deleted |-> doc_id])
    /\ UNCHANGED <<uuid_count, pipeVars>>

\* GET /health
health_check ==
    /\ store_response' = Some([status |-> 200,
                               documents_in_memory |-> Cardinality(DOMAIN global_state_store)])
    /\ UNCHANGED <<collection, global_state_store, uuid_count, pipeVars>>

\* The requests /batch_ingest is called with.
Batches ==
    UNION { [1..n -> [content : DocContents, upsert_ok : BOOLEAN]] : n \in 1..MaxBatch }

(***************************************************************************)
(* Specifications                                                          *)
(***************************************************************************)
\* The query pipeline, the store endpoints at rest.
Init ==
    /\ PipeInit
    /\ search_response \in [Queries -> SearchOutcomes]
    /\ StoreInit
    /\ collection = <<>>

Next ==
    \/ startup_event
    \/ \E q \in Queries : query_documents(q)
    \/ \E q \in Queries : Retrieve(q)
    \/ \E q \in Queries : GenerateAnswer(q)
    \/ \E q \in Queries : QueryReturn(q)

Spec == Init /\ [][Next]_vars

\* The store endpoints, no query being served.
StoreSpecInit ==
    /\ PipeInit
    /\ search_response = [q \in Queries |-> [raises |-> FALSE, msg |-> "", hits |-> <<>>]]
    /\ StoreInit

StoreNext ==
    \/ \E c \in DocContents, ok \in BOOLEAN : ingest_document(c, ok)
    \/ \E b \in Batches : batch_ingest(b)
    \/ \E id \in DocIds, ok \in BOOLEAN : delete_document(id, ok)
    \/ health_check

StoreSpec == StoreSpecInit /\ [][StoreNext]_vars

(***************************************************************************)
(* Properties                                                              *)
(***************************************************************************)
\* Request q got past the workflow check and owns a state dict.
Ran(q) == state_ref[q] # 0

\* The state dict of request q.
St(q) == heap[state_ref[q]]

\* invoke has ended for request q, by returning or by raising.
Ended(q) == Ran(q) /\ pc[q] \in {"END", "raised", "done"}

\* invoke has returned the final state of request q.
Finished(q) == Ran(q) /\ pc[q] \in {"END", "done"}

\* Request q is about to run, or has just run, the named node.
StepOf(q, node) == Ran(q) /\ pc[q] = node /\ pc'[q] # node

Appended(q) == Len(St(q).processing_steps') = Len(St(q).processing_steps) + 1

SetError(q) == St(q).error = None /\ St(q).error' # None

\* C1 as stated: for every non-empty query and every search outcome the
\* provenance log of the final state is exactly [retrieve entry] or
\* [retrieve entry, generate_answer entry], never empty.
C1_LogRetrieveOrBoth ==
    \A q \in Queries :
        (q # "" /\ Finished(q)) =>
            St(q).processing_steps \in {<<RetrieveEntry>>, <<RetrieveEntry, GenerateEntry>>}

\* C1 amended: the provenance log of the final state is empty when the
\* search raised, [retrieve entry] when it returned no hits and
\* [retrieve entry, generate_answer entry] when it returned hits.
C1_LogByOutcome ==
    \A q \in Queries :
        (q # "" /\ Finished(q)) =>
            St(q).processing_steps =
                IF search_response[q].raises THEN <<>>
                ELSE IF search_response[q].hits = <<>> THEN <<RetrieveEntry>>
                ELSE <<RetrieveEntry, GenerateEntry>>

C1_Witness ==
    \E q \in Queries :
        /\ q # "" /\ pc[q] = "done" /\ Ran(q)
        /\ search_response[q].raises
        /\ St(q).processing_steps = <<>>

\* C2: if the search raises during the retrieve step, the final state has
\* error set and its final_answer contains "Error occurred".
C2_RaiseGivesErrorAnswer ==
    \A q \in Queries :
        (Finished(q) /\ search_response[q].raises) =>
            /\ St(q).error # None
            /\ Contains(St(q).final_answer, "Error occurred")

C2_Witness ==
    \E q \in Queries :
        /\ Finished(q) /\ search_response[q].raises
        /\ search_response[q].msg = ""
        /\ St(q).final_answer = "Error occurred: Retrieval failed: "

\* C3 as stated: once error is set on the state of a run, no later step
\* changes any field of it.
C3_NoStepAfterError ==
    [][ \A q \in Queries :
          (Ran(q) /\ St(q).error # None) => St(q)' = St(q) ]_vars

\* C3 amended: once error is set, the generate_answer step still runs and
\* changes final_answer alone, to "Error occurred: " followed by the
\* error; query, retrieved_docs, processing_steps and error stay as the
\* failing step left them.
C3_ErrorStepChangesAnswerOnly ==
    [][ \A q \in Queries :
          (Ran(q) /\ St(q).error # None) =>
              \/ St(q)' = St(q)
              \/ /\ pc[q] = "generate_answer"
                 /\ St(q)' = [St(q) EXCEPT
                                !.final_answer = "Error occurred: " \o St(q).error[1]]
                 /\ St(q)'.final_answer # St(q).final_answer ]_vars

C3_Witness ==
    \E q \in Queries :
        /\ pc[q] = "END"
        /\ St(q).error # None
        /\ St(q).final_answer # ""
        /\ St(q).retrieved_docs = <<>>

\* C4 as stated: in every step invocation the step's entry is appended to
\* processing_steps if and only if the step did not set error in it.
C4_AppendIffNoError ==
    [][ \A q \in Queries :
          (StepOf(q, "retrieve") \/ StepOf(q, "generate_answer")) =>
              (Appended(q) <=> ~SetError(q)) ]_vars

\* C4 amended: retrieve appends its entry if and only if it did not set
\* error; generate_answer never sets error and appends its entry if and
\* only if error is unset on entry and retrieved_docs is non-empty; either
\* way processing_steps is otherwise unchanged.
C4_AppendOnSuccessPath ==
    [][ \A q \in Queries :
          /\ StepOf(q, "retrieve") =>
                /\ Appended(q) <=> ~SetError(q)
                /\ St(q).processing_steps' =
                      IF SetError(q) THEN St(q).processing_steps
                      ELSE Append(St(q).processing_steps, RetrieveEntry)
          /\ StepOf(q, "generate_answer") =>
                /\ ~SetError(q)
                /\ Appended(q) <=> (St(q).error = None /\ St(q).retrieved_docs # <<>>)
                /\ St(q).processing_steps' =
                      IF St(q).error = None /\ St(q).retrieved_docs # <<>>
                      THEN Append(St(q).processing_steps, GenerateEntry)
                      ELSE St(q).processing_steps ]_vars

C4_Witness ==
    \E q \in Queries :
        /\ pc[q] = "END"
        /\ ~search_response[q].raises
        /\ search_response[q].hits = <<>>
        /\ St(q).error = None
        /\ St(q).processing_steps = <<RetrieveEntry>>

\* C5 as stated: applying generate_answer_node to the state it has just
\* produced leaves every field unchanged.
C5_SecondApplicationNoOp ==
    \A q \in Queries :
        Finished(q) => generate_answer_node(St(q)).state = St(q)

\* C5 amended: a second application leaves query, retrieved_docs,
\* final_answer and error unchanged; processing_steps is unchanged when
\* error is set or retrieved_docs is empty, and gains one more
\* generate_answer entry when error is unset and retrieved_docs is
\* non-empty.
C5_SecondApplicationKeepsAnswer ==
    \A q \in Queries :
        Finished(q) =>
            LET s == St(q)
                t == generate_answer_node(s)
            IN  /\ ~t.raised
                /\ t.state.query = s.query
                /\ t.state.retrieved_docs = s.retrieved_docs
                /\ t.state.final_answer = s.final_answer
                /\ t.state.error = s.error
                /\ t.state.processing_steps =
                      IF s.error = None /\ s.retrieved_docs # <<>>
                      THEN s.processing_steps \o <<GenerateEntry>>
                      ELSE s.processing_steps

C5_Witness ==
    \E q \in Queries :
        /\ Finished(q)
        /\ St(q).retrieved_docs # <<>>
        /\ generate_answer_node(St(q)).state.processing_steps
              = <<RetrieveEntry, GenerateEntry, GenerateEntry>>
        /\ generate_answer_node(St(q)).state.final_answer = St(q).final_answer

C7_RunsIndependent ==
    \A q \in Queries :
        Ran(q) =>
            /\ \A q2 \in Queries \ {q} : Ran(q2) => state_ref[q2] # state_ref[q]
            /\ St(q).query = q
            /\ Finished(q) =>
                  LET alone == generate_answer_node(
                                  retrieve_documents_node(create_initial_state(q),
                                                          search_response[q]).state).state
                  IN  /\ St(q).retrieved_docs = alone.retrieved_docs
                      /\ St(q).final_answer = alone.final_answer

C7_Witness ==
    \E q1, q2 \in Queries :
        /\ q1 # q2
        /\ Finished(q1) /\ pc[q2] = "generate_answer"
        /\ St(q1).retrieved_docs # <<>>
        /\ St(q2).retrieved_docs # <<>>
        /\ St(q1).retrieved_docs # St(q2).retrieved_docs

\* C8: if the search returns no hits, the final_answer of the final state
\* is exactly "No relevant documents found." and error is not set.
C8_NoHitsSentinel ==
    \A q \in Queries :
        (Ended(q) /\ ~search_response[q].raises /\ search_response[q].hits = <<>>) =>
            /\ St(q).final_answer = "No relevant documents found."
            /\ St(q).error = None

C8_Witness ==
    \E q \in Queries :
        /\ pc[q] = "done" /\ Ran(q)
        /\ ~search_response[q].raises /\ search_response[q].hits = <<>>
        /\ response[q][1].final_answer = "No relevant documents found."

\* C9: if the search returns at least one hit, final_answer is exactly
\* "Based on the document: ", then the first min(TruncLen, length)
\* characters of the first hit's content, then "..."; retrieved_docs keeps
\* the store's hit order.
C9_AnswerFromFirstHit ==
    \A q \in Queries :
        (Ended(q) /\ ~search_response[q].raises /\ search_response[q].hits # <<>>) =>
            LET hits == search_response[q].hits
                content == IF "content" \in DOMAIN hits[1].payload
                           THEN hits[1].payload.content ELSE ""
                n == IF Len(content) < TruncLen THEN Len(content) ELSE TruncLen
            IN  /\ St(q).final_answer
                      = "Based on the document: " \o SubSeq(content, 1, n) \o "..."
                /\ Len(St(q).final_answer) = Len("Based on the document: ") + n + Len("...")
                /\ Len(St(q).retrieved_docs) = Len(hits)
                /\ \A i \in 1..Len(hits) :
                      /\ St(q).retrieved_docs[i].id = hits[i].id
                      /\ St(q).retrieved_docs[i].score = hits[i].score

C9_Witness ==
    \E q \in Queries :
        /\ Finished(q)
        /\ Len(search_response[q].hits) >= 2
        /\ Len(search_response[q].hits[1].payload.content) > TruncLen
        /\ Len(St(q).final_answer) = Len("Based on the document: ") + TruncLen + Len("...")

\* C10: the mirror global_state_store holds an id exactly if this process
\* upserted it successfully and has not deleted it successfully since,
\* with the payload upserted; an ingest answered with an error left no
\* key, and a batch recorded exactly its successful documents, also those
\* after a failed one.
C10_MirrorTracksUpserts ==
    /\ DOMAIN global_state_store = (DOMAIN collection) \cap IssuedIds
    /\ \A id \in DOMAIN global_state_store : global_state_store[id] = collection[id]
    /\ store_response # None =>
          LET r == store_response[1]
          IN  /\ "results" \in DOMAIN r =>
                    \A i \in 1..Len(r.results) :
                        (r.results[i].status = "success")
                            <=> (r.results[i].id \in DOMAIN global_state_store)
              /\ "id" \in DOMAIN r => r.id \in DOMAIN global_state_store
              /\ (r.status = 500 /\ r.detail = "Ingestion failed") =>
                    uuid_count \notin DOMAIN global_state_store
              /\ "deleted" \in DOMAIN r => r.deleted \notin DOMAIN global_state_store
              /\ "documents_in_memory" \in DOMAIN r =>
                    r.documents_in_memory = Cardinality((DOMAIN collection) \cap IssuedIds)

C10_Witness ==
    /\ store_response # None
    /\ "results" \in DOMAIN store_response[1]
    /\ Len(store_response[1].results) = 2
    /\ store_response[1].results[1].status = "error"
    /\ store_response[1].results[2].status = "success"
    /\ DOMAIN global_state_store = {store_response[1].results[2].id}
    /\ uuid_count = MaxDocs
    /\ LegacyId \in DOMAIN collection
====
